---------------------------- MODULE Spec2Model ----------------------------
(***************************************************************************)
(* A state-machine model of the CloudStore upload intake pipeline, the     *)
(* delete flow, the background rescan and the share-link endpoints.        *)
(*                                                                         *)
(* The metadata store (users, files, shareLinks), the object store         *)
(* (objects) and the timers of the background rescans (scans) are the      *)
(* shared state.  Every HTTP request is handled by a process of Procs; a   *)
(* handler is cut into steps at the awaits where it reads or writes the    *)
(* shared state, so that requests interleave as they do on the server.     *)
(* Awaits that touch nothing another request can observe are kept inside   *)
(* one step.                                                               *)
(***************************************************************************)
EXTENDS Integers, Sequences, FiniteSets, TLC

VARIABLES users, files, objects, scans, shareLinks, now, req, started

vars == <<users, files, objects, scans, shareLinks, now, req, started>>

---------------------------------------------------------------------------
(* Bounds of the model *)

\* the largest batch a client submits
MaxFiles == 2
\* the number of upload requests and of delete requests of one behaviour
MaxUploads == 2
MaxDeletes == 1
\* the number of share-link and download requests of one behaviour
MaxShareRequests == 3
\* the longest buffer handed to the scanner
MaxBufferLen == 4
\* the largest batch handed to the validator
MaxBatchLen == 6
\* the clock runs from 0 to MaxTime ticks
MaxTime == 2
\* User.storageLimit of the modelled user, in bytes
StorageLimit == 3

Procs == {"p1", "p2"}
ProcBefore(p, q) == p = "p1" /\ q = "p2"
Users == {"u1", "u2"}
\* the user whose uploads and deletes are followed
Owner == "u1"

---------------------------------------------------------------------------
(* Strings are sequences of one-character strings *)

UpperChars == <<"A","B","C","D","E","F","G","H","I","J","K","L","M",
                "N","O","P","Q","R","S","T","U","V","W","X","Y","Z">>
LowerChars == <<"a","b","c","d","e","f","g","h","i","j","k","l","m",
                "n","o","p","q","r","s","t","u","v","w","x","y","z">>
DigitChars == <<"0","1","2","3","4","5","6","7","8","9">>

Range(s) == {s[i] : i \in DOMAIN s}

ToLowerChar(c) ==
  IF c \in Range(UpperChars)
  THEN LowerChars[CHOOSE i \in DOMAIN UpperChars : UpperChars[i] = c]
  ELSE c

\* The lower case of one character.  "U+0130" stands for the capital I with a
\* dot above, whose lower case is two characters: i and the combining dot
\* "U+0307".
LowerOf(c) == IF c = "U+0130" THEN <<"i", "U+0307">> ELSE <<ToLowerChar(c)>>

\* String.prototype.toLowerCase
RECURSIVE ToLowerCase(_)
ToLowerCase(s) == IF s = <<>> THEN <<>> ELSE LowerOf(Head(s)) \o ToLowerCase(Tail(s))

\* String.prototype.lastIndexOf for a one-character needle, 0-based, -1 if absent
LastIndexOf(s, c) ==
  IF \E i \in DOMAIN s : s[i] = c
  THEN (CHOOSE i \in DOMAIN s : s[i] = c /\ \A j \in DOMAIN s : s[j] = c => j <= i) - 1
  ELSE -1

\* String.prototype.substring(start): a negative start counts as 0
Substring(s, start) ==
  LET b == IF start < 0 THEN 0 ELSE start
  IN  IF b >= Len(s) THEN <<>> ELSE SubSeq(s, b + 1, Len(s))

\* /<suffix>$/i .test(s)
EndsWithIgnoreCase(s, suffix) ==
  /\ Len(s) >= Len(suffix)
  /\ ToLowerCase(SubSeq(s, Len(s) - Len(suffix) + 1, Len(s))) = suffix

\* Array.prototype.reduce((sum, x) => sum + x, 0)
RECURSIVE SumSeq(_)
SumSeq(s) == IF s = <<>> THEN 0 ELSE Head(s) + SumSeq(Tail(s))

---------------------------------------------------------------------------
(* The files a client submits.  File.size is the length of its bytes. *)

Catalogue ==
  [ txt |-> [name |-> <<"a",".","t","x","t">>, type |-> <<"text", "plain">>,
             bytes |-> <<104>>],
    png |-> [name |-> <<"p",".","p","n","g">>, type |-> <<"image", "png">>,
             bytes |-> <<137, 80>>],
    js  |-> [name |-> <<"x",".","j","s">>, type |-> <<"text", "plain">>,
             bytes |-> <<47>>],
    exe |-> [name |-> <<"v",".","e","x","e">>, type |-> <<"text", "plain">>,
             bytes |-> <<77>>],
    bin |-> [name |-> <<"b",".","b","i","n">>, type |-> <<"application", "octet-stream">>,
             bytes |-> <<0>>] ]

FileOf(h) == [name |-> Catalogue[h].name, type |-> Catalogue[h].type,
              size |-> Len(Catalogue[h].bytes), bytes |-> Catalogue[h].bytes]

Handles == DOMAIN Catalogue

\* the batches of at most n files drawn from the handles hs
BatchesUpTo(hs, n) == UNION {[1..k -> hs] : k \in 0..n}

\* files.reduce((sum, file) => sum + file.size, 0)
TotalSize(batch) == SumSeq([i \in DOMAIN batch |-> FileOf(batch[i]).size])

---------------------------------------------------------------------------
(* lib/file-validator.ts *)

MAX_FILE_SIZE == 100 * 1024 * 1024
MAX_BATCH_SIZE == 500 * 1024 * 1024
MAX_NAME_LENGTH == 255

\* a media type "major/minor" is the pair <<major, minor>>
ALLOWED_TYPES ==
  { <<"image", "jpeg">>, <<"image", "png">>, <<"image", "gif">>, <<"image", "webp">>,
    <<"video", "mp4">>, <<"video", "webm">>, <<"video", "quicktime">>,
    <<"audio", "mp3">>, <<"audio", "wav">>, <<"audio", "ogg">>,
    <<"application", "pdf">>, <<"application", "msword">>,
    <<"application", "vnd.openxmlformats-officedocument.wordprocessingml.document">>,
    <<"application", "vnd.ms-excel">>,
    <<"application", "vnd.openxmlformats-officedocument.spreadsheetml.sheet">>,
    <<"text", "plain">>, <<"text", "csv">>, <<"application", "zip">>,
    <<"application", "x-rar-compressed">> }

dangerousPatterns ==
  { <<".","e","x","e">>, <<".","b","a","t">>, <<".","c","m","d">>, <<".","s","c","r">> }

\* validateFile without the denylist of lines 51-55
validateFileNoDenylist(file) ==
     (IF file.size > MAX_FILE_SIZE THEN <<"size">> ELSE <<>>)
  \o (IF file.type \notin ALLOWED_TYPES THEN <<"type">> ELSE <<>>)
  \o (IF Len(file.name) > MAX_NAME_LENGTH THEN <<"name">> ELSE <<>>)

\* the errors validateFile collects, in the order of its checks
validateFile(file) ==
     (IF file.size > MAX_FILE_SIZE THEN <<"size">> ELSE <<>>)
  \o (IF file.type \notin ALLOWED_TYPES THEN <<"type">> ELSE <<>>)
  \o (IF Len(file.name) > MAX_NAME_LENGTH THEN <<"name">> ELSE <<>>)
  \o (IF \E pat \in dangerousPatterns : EndsWithIgnoreCase(file.name, pat)
      THEN <<"dangerous">> ELSE <<>>)

RECURSIVE FileErrors(_, _)
FileErrors(fs, i) ==
  IF i > Len(fs) THEN <<>>
  ELSE (IF validateFile(fs[i]) # <<>>
        THEN << [index |-> i, name |-> fs[i].name, errors |-> validateFile(fs[i])] >>
        ELSE <<>>) \o FileErrors(fs, i + 1)

\* a validateBatch that looks at the files only when the batch is small enough
validateBatchStopsAtBatchSize(fs) ==
  LET totalSize == SumSeq([i \in DOMAIN fs |-> fs[i].size])
      allErrors == IF totalSize > MAX_BATCH_SIZE THEN << [batch |-> "size"] >>
                   ELSE FileErrors(fs, 1)
  IN  [isValid |-> allErrors = <<>>, errors |-> allErrors]

\* allErrors of validateBatch: the batch entry first, then one entry per failing file
validateBatch(fs) ==
  LET totalSize == SumSeq([i \in DOMAIN fs |-> fs[i].size])
      allErrors == (IF totalSize > MAX_BATCH_SIZE THEN << [batch |-> "size"] >> ELSE <<>>)
                   \o FileErrors(fs, 1)
  IN  [isValid |-> allErrors = <<>>, errors |-> allErrors]

---------------------------------------------------------------------------
(* lib/virus-scanner.ts *)

dangerousExtensions ==
  { <<".","e","x","e">>, <<".","b","a","t">>, <<".","c","m","d">>, <<".","s","c","r">>,
    <<".","p","i","f">>, <<".","c","o","m">>, <<".","v","b","s">>, <<".","j","s">>,
    <<".","j","a","r">>, <<".","m","s","i">>, <<".","d","e","b">>, <<".","r","p","m">> }

allSafeExtensions ==
  { <<".","j","p","g">>, <<".","j","p","e","g">>, <<".","p","n","g">>, <<".","g","i","f">>,
    <<".","b","m","p">>, <<".","w","e","b","p">>, <<".","s","v","g">>, <<".","i","c","o">>,
    <<".","p","d","f">>, <<".","d","o","c">>, <<".","d","o","c","x">>, <<".","x","l","s">>,
    <<".","x","l","s","x">>, <<".","p","p","t">>, <<".","p","p","t","x">>,
    <<".","t","x","t">>, <<".","r","t","f">>,
    <<".","m","p","3">>, <<".","m","p","4">>, <<".","a","v","i">>, <<".","m","o","v">>,
    <<".","w","m","v">>, <<".","w","a","v">>, <<".","o","g","g">>, <<".","f","l","a","c">> }

\* PE and ELF executable headers
executableSignatures == { <<77, 90>>, <<127, 69, 76, 70>> }

containsSignature(buffer, signature) ==
  \E i \in 0..(Len(buffer) - Len(signature)) :
    \A j \in 0..(Len(signature) - 1) : buffer[i + j + 1] = signature[j + 1]

\* scanBuffer when nothing inside it throws
scanBuffer(buffer, fileName) ==
  LET fileExtension == Substring(ToLowerCase(fileName), LastIndexOf(fileName, "."))
  IN  IF fileExtension \in dangerousExtensions THEN "infected"
      ELSE IF fileExtension \in allSafeExtensions
           THEN IF \E sig \in executableSignatures : containsSignature(buffer, sig)
                THEN "infected" ELSE "clean"
           ELSE IF \E sig \in executableSignatures : containsSignature(buffer, sig)
                THEN "infected" ELSE "clean"

---------------------------------------------------------------------------
(* lib/s3.ts: keys.  "<dir>/<userSeg>/<fileSeg>" is kept as its three path *)
(* segments; userSeg is a prefix list and the user id, fileSeg a prefix    *)
(* list, the timestamp and the sanitized name.                             *)

SafeChars == Range(UpperChars) \cup Range(LowerChars) \cup Range(DigitChars) \cup {".", "-"}

\* fileName.replace(/[^a-zA-Z0-9.-]/g, "_")
Sanitize(fileName) == [i \in DOMAIN fileName |->
                         IF fileName[i] \in SafeChars THEN fileName[i] ELSE "_"]

generateS3Key(userId, fileName, timestamp) ==
  [dir |-> "files", userSeg |-> <<<<>>, userId>>,
   fileSeg |-> <<<<>>, timestamp, Sanitize(fileName)>>]

\* `thumbnails/${parts[1]}/thumb-${parts[parts.length - 1]}`
getThumbnailKey(originalKey) ==
  [dir |-> "thumbnails", userSeg |-> originalKey.userSeg,
   fileSeg |-> <<<<"thumb-">> \o originalKey.fileSeg[1],
                 originalKey.fileSeg[2], originalKey.fileSeg[3]>>]

\* s3Key.replace("files/", "thumbnails/thumb-"): the first occurrence, which is
\* the leading directory of a key made by generateS3Key
ReplaceFilesPrefix(s3Key) ==
  IF s3Key.dir = "files"
  THEN [dir |-> "thumbnails",
        userSeg |-> <<<<"thumb-">> \o s3Key.userSeg[1], s3Key.userSeg[2]>>,
        fileSeg |-> s3Key.fileSeg]
  ELSE s3Key

---------------------------------------------------------------------------
(* lib/file-processor.ts *)

\* contentType.startsWith("image/") || contentType.startsWith("video/")
needsProcessing(contentType) == contentType[1] = "image" \/ contentType[1] = "video"

getProcessor(contentType) ==
  IF contentType[1] = "image" THEN "processImage"
  ELSE IF contentType[1] = "video" THEN "processVideo"
  ELSE "null"

---------------------------------------------------------------------------
(* The state after construction: the seeded user (scripts/setup-database.js, *)
(* signup) has stored nothing; no request is in flight.                      *)

Idle == [kind |-> "idle", pc |-> "idle"]

Init ==
  /\ users = [u \in Users |-> [storageUsed |-> 0, storageLimit |-> StorageLimit]]
  /\ files = <<>>
  /\ objects = {}
  /\ scans = {}
  /\ shareLinks = <<>>
  /\ now = 0
  /\ req = [p \in Procs |-> Idle]
  /\ started = [upload |-> 0, delete |-> 0, share |-> 0]

\* A request is taken by the first process that has none or has answered its
\* last one: the processes are interchangeable.
Vacant(p) == req[p].pc \in {"idle", "done"}
Free(p, kind) ==
  /\ Vacant(p)
  /\ \A q \in Procs : Vacant(q) => ~ProcBefore(q, p)
  /\ started[kind] < (CASE kind = "upload" -> MaxUploads
                         [] kind = "delete" -> MaxDeletes
                         [] kind = "share"  -> MaxShareRequests)

\* Date.now() moves on by step milliseconds
Tick(step) ==
  /\ now + step <= MaxTime * step
  /\ now' = now + step
  /\ UNCHANGED <<users, files, objects, scans, shareLinks, req, started>>

---------------------------------------------------------------------------
(* lib/database.ts *)

\* db.users.findById
UsersFindById(userId) == users[userId]

\* db.users.updateStorageUsed: $set of the value the caller computed
UpdateStorageUsed(userId, storageUsed) ==
  [users EXCEPT ![userId].storageUsed = storageUsed]

\* db.files.findById: the record with this id that is not soft-deleted, as a set
FilesFindById(id) ==
  {files[i] : i \in {j \in DOMAIN files : files[j].id = id /\ ~files[j].isDeleted}}

\* db.files.create: the record as inserted; ids are unique
FilesCreate(fileData) ==
  [id |-> Len(files) + 1,
   userId |-> fileData.userId, name |-> fileData.name, size |-> fileData.size,
   type |-> fileData.type, s3Key |-> fileData.s3Key,
   thumbnailS3Key |-> fileData.thumbnailS3Key, thumbnailUrl |-> fileData.thumbnailUrl,
   virusScanStatus |-> fileData.virusScanStatus,
   isShared |-> fileData.isShared, shareSettings |-> {}, isDeleted |-> FALSE,
   deletedAt |-> {}]

\* db.files.update: $set of the fields of updates on the record with this id
\* that is not soft-deleted
FilesUpdate(id, updates) ==
  [i \in DOMAIN files |-> IF files[i].id = id /\ ~files[i].isDeleted
                          THEN updates @@ files[i] ELSE files[i]]

\* db.shareLinks.findById: the active link with this id, as a set
ShareLinksFindById(id) ==
  {shareLinks[i] : i \in {j \in DOMAIN shareLinks :
                            shareLinks[j].id = id /\ shareLinks[j].isActive}}

\* db.shareLinks.create: the link as inserted
ShareLinksCreate(shareData) ==
  [id |-> Len(shareLinks) + 1,
   fileId |-> shareData.fileId, userId |-> shareData.userId,
   password |-> shareData.password, expiresAt |-> shareData.expiresAt,
   allowDownload |-> shareData.allowDownload, allowPreview |-> shareData.allowPreview,
   accessCount |-> 0, isActive |-> TRUE, accessLog |-> <<>>]

\* an update that counts the access and logs nothing
IncrementAccessCountOnly(id, t) ==
  [i \in DOMAIN shareLinks |->
     IF shareLinks[i].id = id
     THEN [shareLinks[i] EXCEPT !.accessCount = @ + 1]
     ELSE shareLinks[i]]

\* an update that logs the access and does not count it
IncrementAccessLogOnly(id, t) ==
  [i \in DOMAIN shareLinks |->
     IF shareLinks[i].id = id
     THEN [shareLinks[i] EXCEPT !.accessLog = Append(@, [timestamp |-> t])]
     ELSE shareLinks[i]]

\* db.shareLinks.incrementAccess: $inc and $push in one update, at time t
IncrementAccess(id, t) ==
  [i \in DOMAIN shareLinks |->
     IF shareLinks[i].id = id
     THEN [shareLinks[i] EXCEPT !.accessCount = @ + 1,
                                !.accessLog = Append(@, [timestamp |-> t])]
     ELSE shareLinks[i]]

---------------------------------------------------------------------------
(* app/api/files/upload/route.ts *)

\* What can throw while one file is handled.  Before anything is stored:
\* file.arrayBuffer ("read"), the body of scanBuffer ("scan"), the processor
\* ("process").
IntakeFaults(file) ==
  {"none", "read", "scan"}
  \cup (IF scanBuffer(file.bytes, file.name) # "infected" /\ needsProcessing(file.type)
        THEN {"process"} ELSE {})

\* While storing: the upload of the original ("store"), the upload of the
\* thumbnail ("thumb"), and getDownloadUrl of the thumbnail or db.files.create,
\* both after every object is written ("record").
StoreFaults(thumb) ==
  {"none", "store", "record"} \cup (IF thumb # {} THEN {"thumb"} ELSE {})

\* the scan result the upload loop sees: the catch of scanBuffer turns a fault into "error"
InlineScan(file, fault) ==
  IF fault = "scan" THEN "error" ELSE scanBuffer(file.bytes, file.name)

\* a blocked entry that loses the size of the file
BlockedEntryNoSize(file, reason) == [name |-> file.name, reason |-> reason, size |-> 0]

BlockedEntry(file, reason) == [name |-> file.name, reason |-> reason, size |-> file.size]

\* lines 64-90: up to the processor's result.  thumb is the key under which
\* processImage will have the thumbnail stored: getThumbnailKey of a key generated
\* at t; processVideo makes no thumbnail buffer, so nothing is stored for it.
Intake(userId, file, fault, t) ==
  LET scanResult == InlineScan(file, fault)
      processor  == IF needsProcessing(file.type) THEN getProcessor(file.type) ELSE "null"
  IN  [scanResult |-> scanResult,
       blocked |-> IF fault = "read" THEN << BlockedEntry(file, "Upload error") >>
                   ELSE IF scanResult = "infected"
                   THEN << BlockedEntry(file, "Virus/malware detected") >>
                   ELSE IF fault = "process" THEN << BlockedEntry(file, "Upload error") >>
                   ELSE <<>>,
       processor |-> processor,
       thumb |-> IF processor = "processImage"
                 THEN {getThumbnailKey(generateS3Key(userId, file.name, t))} ELSE {}]

\* a record that is created as clean whatever the inline scan returned
NewFileRecordAlwaysClean(userId, file, s3Key, thumbnailUrl, scanResult) ==
  FilesCreate([userId |-> userId, name |-> file.name, size |-> file.size,
               type |-> file.type, s3Key |-> s3Key, isShared |-> FALSE,
               thumbnailS3Key |-> IF thumbnailUrl # {}
                                  THEN {ReplaceFilesPrefix(s3Key)} ELSE {},
               thumbnailUrl |-> thumbnailUrl,
               virusScanStatus |-> "clean"])

\* the record line 122 creates
NewFileRecord(userId, file, s3Key, thumbnailUrl, scanResult) ==
  FilesCreate([userId |-> userId, name |-> file.name, size |-> file.size,
               type |-> file.type, s3Key |-> s3Key, isShared |-> FALSE,
               thumbnailS3Key |-> IF thumbnailUrl # {}
                                  THEN {ReplaceFilesPrefix(s3Key)} ELSE {},
               thumbnailUrl |-> thumbnailUrl,
               virusScanStatus |-> IF scanResult = "clean" THEN "clean" ELSE "pending"])

\* the size line 157 adds to totalUploadedSize
Charge(file) == file.size

\* lines 91-157 (uploadProcessedFile or the direct upload, db.files.create,
\* scheduleBackgroundScan, the pushes): what is written and what is pushed.
\* The storage key is generated at t.
StoreFile(userId, file, scanResult, thumb, fault, t) ==
  LET s3Key   == generateS3Key(userId, file.name, t)
      written == IF fault = "store" THEN {}
                 ELSE IF fault = "thumb" THEN {s3Key}
                 ELSE {s3Key} \cup thumb
      record  == NewFileRecord(userId, file, s3Key, thumb, scanResult)
      stored  == fault = "none"
  IN  [written  |-> written,
       records  |-> IF stored THEN <<record>> ELSE <<>>,
       scheduled |-> IF stored /\ scanResult = "clean"
                     THEN {[fileId |-> record.id, s3Key |-> s3Key, pc |-> "scheduled"]}
                     ELSE {},
       uploaded |-> IF stored
                    THEN << [id |-> record.id, name |-> record.name, size |-> record.size,
                             virusScanStatus |-> record.virusScanStatus] >>
                    ELSE <<>>,
       blocked  |-> IF stored THEN <<>> ELSE << BlockedEntry(file, "Upload error") >>,
       addSize  |-> IF stored THEN Charge(file) ELSE 0]

NoProcessed == [scanResult |-> "none", thumb |-> {}]

\* what threw while the file before r.idx was handled, as the server logs it
\* ("Virus scan error", "Error uploading file")
NoFault == [intake |-> "none", store |-> "none"]

\* a loop that ends one file early
AfterFileSkipsLast(r) == IF r.idx + 1 >= Len(r.batch) THEN "quota" ELSE "files"

\* the pc after the file at r.idx is finished
AfterFile(r) == IF r.idx = Len(r.batch) THEN "quota" ELSE "files"

\* a quota check that also refuses the batch that fills the quota exactly
QuotaExceededOffByOne(user, totalSize) ==
  user.storageUsed + totalSize >= user.storageLimit

\* line 48: the quota check
QuotaExceeded(user, totalSize) == user.storageUsed + totalSize > user.storageLimit

\* lines 23-57: read the user, validate the batch, check the quota
UploadStart(p, userId, batch) ==
  /\ Free(p, "upload")
  /\ started' = [started EXCEPT !.upload = @ + 1]
  /\ LET user       == UsersFindById(userId)
         fs         == [i \in DOMAIN batch |-> FileOf(batch[i])]
         validation == validateBatch(fs)
         totalSize  == TotalSize(batch)
         base       == [kind |-> "upload", userId |-> userId, user |-> user,
                        batch |-> batch, idx |-> 1, uploadedFiles |-> <<>>,
                        blockedFiles |-> <<>>, totalUploadedSize |-> 0,
                        processed |-> NoProcessed, fault |-> NoFault]
         answer(resp) == base @@ [pc |-> "done", resp |-> resp]
     IN  req' = [req EXCEPT ![p] =
           IF Len(batch) = 0
           THEN answer([status |-> 400, error |-> "No files provided"])
           ELSE IF ~validation.isValid
           THEN answer([status |-> 400, error |-> "File validation failed",
                        details |-> validation.errors])
           ELSE IF QuotaExceeded(user, totalSize)
           THEN answer([status |-> 413, error |-> "Storage limit exceeded",
                        attempted |-> totalSize,
                        available |-> user.storageLimit - user.storageUsed])
           ELSE base @@ [pc |-> "files", resp |-> [status |-> 0]]]
  /\ UNCHANGED <<users, files, objects, scans, shareLinks, now>>

\* the effects of StoreFile on the stores and on the request
Stored(p, out, fault) ==
  /\ objects' = objects \cup out.written
  /\ files' = files \o out.records
  /\ scans' = scans \cup out.scheduled
  /\ req' = [req EXCEPT ![p] =
       [req[p] EXCEPT !.uploadedFiles = @ \o out.uploaded,
                      !.blockedFiles = @ \o out.blocked,
                      !.totalUploadedSize = @ + out.addSize,
                      !.processed = NoProcessed,
                      !.fault = fault,
                      !.idx = @ + 1,
                      !.pc = AfterFile(req[p])]]

\* lines 63-167, one file of the batch: it is read and scanned; a blocked file
\* ends the iteration; a file that needs no processing is stored and recorded at
\* once (no other request reads an object or a record of this file before the
\* record exists); a processed file is stored in a later step, UploadStore.
UploadFile(p) ==
  /\ req[p].kind = "upload" /\ req[p].pc = "files"
  /\ LET r    == req[p]
         file == FileOf(r.batch[r.idx])
     IN  \E fault \in IntakeFaults(file) :
           LET in == Intake(r.userId, file, fault, now)
           IN  IF in.blocked # <<>>
               THEN /\ req' = [req EXCEPT ![p] =
                         [r EXCEPT !.blockedFiles = @ \o in.blocked,
                                   !.fault = [intake |-> fault, store |-> "none"],
                                   !.idx = @ + 1, !.pc = AfterFile(r)]]
                    /\ UNCHANGED <<objects, files, scans>>
               ELSE IF in.processor # "null"
               THEN /\ req' = [req EXCEPT ![p] =
                         [r EXCEPT !.pc = "store",
                                   !.fault = [intake |-> fault, store |-> "none"],
                                   !.processed = [scanResult |-> in.scanResult,
                                                  thumb |-> in.thumb]]]
                    /\ UNCHANGED <<objects, files, scans>>
               ELSE \E sfault \in StoreFaults({}) :
                      Stored(p, StoreFile(r.userId, file, in.scanResult, {}, sfault, now),
                             [intake |-> fault, store |-> sfault])
  /\ UNCHANGED <<users, shareLinks, now, started>>

\* lines 91-157 for a processed file
UploadStore(p) ==
  /\ req[p].kind = "upload" /\ req[p].pc = "store"
  /\ LET r    == req[p]
         file == FileOf(r.batch[r.idx])
     IN  \E sfault \in StoreFaults(r.processed.thumb) :
           Stored(p, StoreFile(r.userId, file, r.processed.scanResult,
                               r.processed.thumb, sfault, now),
                  [r.fault EXCEPT !.store = sfault])
  /\ UNCHANGED <<users, shareLinks, now, started>>

\* the body of the answer of lines 172-182
UploadSummary(r) ==
  [status |-> 200, uploadedCount |-> Len(r.uploadedFiles),
   blockedCount |-> Len(r.blockedFiles), totalSize |-> r.totalUploadedSize]

\* a quota update that charges every submitted file
QuotaWriteWholeBatch(r) == r.user.storageUsed + TotalSize(r.batch)

\* the value line 170 writes to storageUsed
QuotaWrite(r) == r.user.storageUsed + r.totalUploadedSize

\* lines 169-186: the quota update and the answer; when the update throws, the
\* outer catch answers 500
UploadQuota(p) ==
  /\ req[p].kind = "upload" /\ req[p].pc = "quota"
  /\ \/ /\ users' = UpdateStorageUsed(req[p].userId, QuotaWrite(req[p]))
        /\ req' = [req EXCEPT ![p].pc = "done", ![p].resp = UploadSummary(req[p])]
     \/ /\ users' = users
        /\ req' = [req EXCEPT ![p].pc = "done",
                              ![p].resp = [status |-> 500, error |-> "Internal server error"]]
  /\ UNCHANGED <<files, objects, scans, shareLinks, now, started>>

---------------------------------------------------------------------------
(* DELETE /api/files/[id]  (unnamed/part_002) *)

\* a decrement that is not clamped at 0
MaxIsSecond(a, b) == b

Max(a, b) == IF a >= b THEN a ELSE b

\* a soft delete that sets the flag and no timestamp
FilesDeleteNoTimestamp(id) ==
  [i \in DOMAIN files |-> IF files[i].id = id
                          THEN [files[i] EXCEPT !.isDeleted = TRUE] ELSE files[i]]

\* db.files.delete: $set isDeleted and deletedAt on the record with this id
FilesDelete(id) ==
  [i \in DOMAIN files |-> IF files[i].id = id
                          THEN [files[i] EXCEPT !.isDeleted = TRUE, !.deletedAt = {now}]
                          ELSE files[i]]

\* lines 20-27: look the file up and check its owner
DeleteStart(p, caller, id) ==
  /\ Free(p, "delete")
  /\ started' = [started EXCEPT !.delete = @ + 1]
  /\ LET found == FilesFindById(id)
         base  == [kind |-> "delete", userId |-> caller, fileId |-> id]
     IN  req' = [req EXCEPT ![p] =
           IF found = {}
           THEN base @@ [pc |-> "done", resp |-> [status |-> 404, error |-> "File not found"]]
           ELSE LET file == CHOOSE f \in found : TRUE
                IN  IF file.userId # caller
                    THEN base @@ [pc |-> "done",
                                  resp |-> [status |-> 403, error |-> "Access denied"]]
                    ELSE base @@ [pc |-> "remove", file |-> file, resp |-> [status |-> 0]]]
  /\ UNCHANGED <<users, files, objects, scans, shareLinks, now>>

\* the objects lines 29-40 leave in the store: a throwing deleteFile skips what
\* follows it in the try block
AfterS3Delete(file, fault) ==
  IF fault = "original" THEN objects
  ELSE IF fault = "thumbnail" THEN objects \ {file.s3Key}
  ELSE objects \ ({file.s3Key} \cup file.thumbnailS3Key)

\* lines 29-43: best-effort removal of the objects, then the soft delete.  The
\* object deletes and the soft delete are idempotent and a concurrent request
\* reads the record either before or after them.
DeleteRemove(p) ==
  /\ req[p].kind = "delete" /\ req[p].pc = "remove"
  /\ \E fault \in {"none", "original"}
                  \cup (IF req[p].file.thumbnailS3Key # {} THEN {"thumbnail"} ELSE {}) :
       objects' = AfterS3Delete(req[p].file, fault)
  /\ files' = FilesDelete(req[p].fileId)
  /\ req' = [req EXCEPT ![p].pc = "readUser"]
  /\ UNCHANGED <<users, scans, shareLinks, now, started>>

\* line 46
DeleteReadUser(p) ==
  /\ req[p].kind = "delete" /\ req[p].pc = "readUser"
  /\ req' = [req EXCEPT ![p] = [pc |-> "quota", user |-> UsersFindById(req[p].userId)] @@ @]
  /\ UNCHANGED <<users, files, objects, scans, shareLinks, now, started>>

\* lines 47-51
DeleteQuota(p) ==
  /\ req[p].kind = "delete" /\ req[p].pc = "quota"
  /\ users' = UpdateStorageUsed(req[p].userId,
                                Max(0, req[p].user.storageUsed - req[p].file.size))
  /\ req' = [req EXCEPT ![p].pc = "done", ![p].resp = [status |-> 200, success |-> TRUE]]
  /\ UNCHANGED <<files, objects, scans, shareLinks, now, started>>

---------------------------------------------------------------------------
(* The upload and delete requests of one user, one request at a time, over *)
(* every kind of file.                                                     *)

Next ==
  \/ \E batch \in BatchesUpTo(Handles, MaxFiles) : UploadStart("p1", Owner, batch)
  \/ UploadFile("p1")
  \/ UploadStore("p1")
  \/ UploadQuota("p1")
  \/ \E id \in 1..(Len(files) + 1) : DeleteStart("p1", Owner, id)
  \/ DeleteRemove("p1")
  \/ DeleteReadUser("p1")
  \/ DeleteQuota("p1")

Spec == Init /\ [][Next]_vars

---------------------------------------------------------------------------
(* The upload and delete requests of one user handled concurrently: the   *)
(* steps of the requests of the processes interleave.                     *)

ConcHandles == {"txt", "js"}

NextConc ==
  \/ \E p \in Procs, batch \in BatchesUpTo(ConcHandles, MaxFiles) :
       UploadStart(p, Owner, batch)
  \/ \E p \in Procs : UploadFile(p)
  \/ \E p \in Procs : UploadQuota(p)
  \/ \E p \in Procs, id \in 1..(Len(files) + 1) : DeleteStart(p, Owner, id)
  \/ \E p \in Procs : DeleteRemove(p)
  \/ \E p \in Procs : DeleteReadUser(p)
  \/ \E p \in Procs : DeleteQuota(p)

SpecConc == Init /\ [][NextConc]_vars

---------------------------------------------------------------------------
(* lib/virus-scanner.ts: the background rescan scheduled by an upload *)

\* lines 119-126: the timer fires, scanS3File answers (infected with a small
\* probability, clean otherwise) and the record gets the result
ScanRun(s, result) ==
  /\ s \in scans /\ s.pc = "scheduled"
  /\ files' = FilesUpdate(s.fileId, [virusScanStatus |-> result])
  /\ scans' = IF result = "infected"
              THEN (scans \ {s}) \cup {[s EXCEPT !.pc = "purge"]}
              ELSE scans \ {s}
  /\ UNCHANGED <<users, objects, shareLinks, now, req, started>>

\* lines 128-141: the object of an infected file is deleted and the record
\* marked again; when deleteFile throws the callback ends there
ScanPurge(s) ==
  /\ s \in scans /\ s.pc = "purge"
  /\ \/ /\ objects' = objects \ {s.s3Key}
        /\ files' = FilesUpdate(s.fileId, [virusScanStatus |-> "infected"])
     \/ /\ objects' = objects
        /\ files' = files
  /\ scans' = scans \ {s}
  /\ UNCHANGED <<users, shareLinks, now, req, started>>

---------------------------------------------------------------------------
(* GET /api/files/[id]/download  (unnamed/part_001) *)

\* the answer of a download that serves the record to any caller
OwnerDownloadAnswerNoOwnerCheck(found, caller, fault) ==
  IF found = {} THEN [status |-> 404, error |-> "File not found"]
  ELSE LET file == CHOOSE f \in found : TRUE
       IN  IF file.virusScanStatus = "infected"
           THEN [status |-> 403, error |-> "File is infected and cannot be downloaded"]
           ELSE IF fault = "url"
           THEN [status |-> 500, error |-> "Internal server error"]
           ELSE [status |-> 200, downloadUrl |-> file.s3Key]

\* lines 22-48: the answer of the owner download for the record found (a set)
\* and the caller; fault "url" is getDownloadUrl throwing
OwnerDownloadAnswer(found, caller, fault) ==
  IF found = {} THEN [status |-> 404, error |-> "File not found"]
  ELSE LET file == CHOOSE f \in found : TRUE
       IN  IF file.userId # caller THEN [status |-> 403, error |-> "Access denied"]
           ELSE IF file.virusScanStatus = "infected"
           THEN [status |-> 403, error |-> "File is infected and cannot be downloaded"]
           ELSE IF fault = "url"
           THEN [status |-> 500, error |-> "Internal server error"]
           ELSE [status |-> 200, downloadUrl |-> file.s3Key]

\* the handler reads the record once and touches no other shared state
OwnerDownload(p, caller, id) ==
  /\ Free(p, "share")
  /\ started' = [started EXCEPT !.share = @ + 1]
  /\ \E fault \in {"none", "url"} :
       req' = [req EXCEPT ![p] =
         [kind |-> "ownerDownload", pc |-> "done", userId |-> caller, fileId |-> id,
          file |-> FilesFindById(id),
          resp |-> OwnerDownloadAnswer(FilesFindById(id), caller, fault)]]
  /\ UNCHANGED <<users, files, objects, scans, shareLinks, now>>

---------------------------------------------------------------------------
(* GET /api/files/[id]  (unnamed/part_002) *)

\* lines 72-91: the answer of the file-detail read for the record found (a
\* set) and the caller
FileDetailAnswer(found, caller) ==
  IF found = {} THEN [status |-> 404, error |-> "File not found"]
  ELSE LET file == CHOOSE f \in found : TRUE
       IN  IF file.userId # caller THEN [status |-> 403, error |-> "Access denied"]
           ELSE [status |-> 200, id |-> file.id, name |-> file.name, size |-> file.size,
                 type |-> file.type, isShared |-> file.isShared,
                 virusScanStatus |-> file.virusScanStatus]

\* the handler reads the record once and touches no other shared state
FileDetail(p, caller, id) ==
  /\ Free(p, "share")
  /\ started' = [started EXCEPT !.share = @ + 1]
  /\ req' = [req EXCEPT ![p] =
       [kind |-> "detail", pc |-> "done", userId |-> caller, fileId |-> id,
        resp |-> FileDetailAnswer(FilesFindById(id), caller)]]
  /\ UNCHANGED <<users, files, objects, scans, shareLinks, now>>

---------------------------------------------------------------------------
(* POST /api/files/[id]/share  (app/api/files/serve/[...path]/route.ts) *)

HOUR_MS == 60 * 60 * 1000
DAY_MS == 24 * 60 * 60 * 1000

\* expiresIn.replace(/[^\d]/g, "") and expiresIn.replace(/[\d]/g, "")
DigitsOf(str) == SelectSeq(str, LAMBDA c : c \in Range(DigitChars))
NonDigitsOf(str) == SelectSeq(str, LAMBDA c : c \notin Range(DigitChars))

DigitValue(c) == (CHOOSE i \in DOMAIN DigitChars : DigitChars[i] = c) - 1

\* Number.parseInt of a non-empty string of digits
RECURSIVE ParseInt(_)
ParseInt(ds) ==
  IF Len(ds) = 1 THEN DigitValue(ds[1])
  ELSE 10 * ParseInt(SubSeq(ds, 1, Len(ds) - 1)) + DigitValue(ds[Len(ds)])

NEVER == <<"n","e","v","e","r">>

\* a switch whose default branch counts hours
DurationMsDefaultHours(expiresIn) ==
  LET duration == ParseInt(DigitsOf(expiresIn))
      unit     == NonDigitsOf(expiresIn)
  IN  IF unit = <<"h">> THEN duration * HOUR_MS
      ELSE IF unit = <<"d">> THEN duration * DAY_MS
      ELSE duration * HOUR_MS

\* lines 78-91: the milliseconds of a duration token that holds a digit
DurationMs(expiresIn) ==
  LET duration == ParseInt(DigitsOf(expiresIn))
      unit     == NonDigitsOf(expiresIn)
  IN  IF unit = <<"h">> THEN duration * HOUR_MS
      ELSE IF unit = <<"d">> THEN duration * DAY_MS
      ELSE duration * DAY_MS

\* lines 76-94: expiresAt, absent for "never" and for an empty token.  The ISO
\* string written and parsed back keeps the milliseconds, so expiresAt is kept
\* as the number of milliseconds.
ExpiresAt(expiresIn, t) ==
  IF expiresIn = <<>> \/ expiresIn = NEVER THEN {} ELSE {t + DurationMs(expiresIn)}

\* bcrypt.hash and bcrypt.compare
Hash(password) == <<"bcrypt", password>>
Compare(password, hash) == hash = Hash(password)

\* x ?? d for an optional x, kept as a set of at most one value
Coalesce(x, d) == IF x = {} THEN d ELSE CHOOSE v \in x : TRUE

\* lines 64-73: look the file up and check its owner
ShareStart(p, caller, id, body) ==
  /\ Free(p, "share")
  /\ started' = [started EXCEPT !.share = @ + 1]
  /\ LET found == FilesFindById(id)
         base  == [kind |-> "share", userId |-> caller, fileId |-> id, body |-> body,
                   shareId |-> 0]
     IN  req' = [req EXCEPT ![p] =
           IF found = {}
           THEN base @@ [pc |-> "done", resp |-> [status |-> 404, error |-> "File not found"]]
           ELSE IF (CHOOSE f \in found : TRUE).userId # caller
           THEN base @@ [pc |-> "done", resp |-> [status |-> 403, error |-> "Access denied"]]
           ELSE base @@ [pc |-> "insert", resp |-> [status |-> 0]]]
  /\ UNCHANGED <<users, files, objects, scans, shareLinks, now>>

\* the share data of lines 100-107, at time t
ShareData(r, t) ==
  [fileId |-> r.fileId, userId |-> r.userId,
   password |-> IF r.body.password # "" THEN {Hash(r.body.password)} ELSE {},
   expiresAt |-> ExpiresAt(r.body.expiresIn, t),
   allowDownload |-> Coalesce(r.body.allowDownload, TRUE),
   allowPreview |-> Coalesce(r.body.allowPreview, TRUE)]

\* lines 75-107: the expiry, the hash and the new link.  A token without a
\* digit gives an invalid date, toISOString throws and the answer is 500.
ShareInsert(p) ==
  /\ req[p].kind = "share" /\ req[p].pc = "insert"
  /\ LET r == req[p]
     IN  IF r.body.expiresIn # <<>> /\ r.body.expiresIn # NEVER /\ DigitsOf(r.body.expiresIn) = <<>>
         THEN /\ req' = [req EXCEPT ![p].pc = "done",
                           ![p].resp = [status |-> 500, error |-> "Internal server error"]]
              /\ shareLinks' = shareLinks
         ELSE LET link == ShareLinksCreate(ShareData(r, now))
              IN  /\ shareLinks' = Append(shareLinks, link)
                  /\ req' = [req EXCEPT ![p].pc = "stamp", ![p].shareId = link.id]
  /\ UNCHANGED <<users, files, objects, scans, now, started>>

\* the snapshot lines 110-119 stamp on the record
ShareSettings(link) ==
  [shareId |-> link.id, password |-> link.password, expiresAt |-> link.expiresAt,
   allowDownload |-> link.allowDownload, allowPreview |-> link.allowPreview]

\* lines 109-127
ShareStamp(p) ==
  /\ req[p].kind = "share" /\ req[p].pc = "stamp"
  /\ LET link == shareLinks[req[p].shareId]
     IN  /\ files' = FilesUpdate(req[p].fileId,
                       [isShared |-> TRUE, shareSettings |-> {ShareSettings(link)}])
         /\ req' = [req EXCEPT ![p].pc = "done",
                      ![p].resp = [status |-> 200, shareId |-> link.id,
                                   expiresAt |-> link.expiresAt]]
  /\ UNCHANGED <<users, objects, scans, shareLinks, now, started>>

---------------------------------------------------------------------------
(* POST /api/shared/[shareId]/download *)

\* expiresAt && new Date(expiresAt) < new Date()
Expired(link, t) == \E e \in link.expiresAt : e < t

\* the link checks without the check of allowDownload
DownloadGateIgnoresPermission(found, password, t) ==
  IF found = {} THEN [status |-> 404, error |-> "Share link not found"]
  ELSE LET shareLink == CHOOSE l \in found : TRUE
       IN  IF shareLink.password # {}
              /\ (password = "" \/ \A h \in shareLink.password : ~Compare(password, h))
           THEN [status |-> 401, error |-> "Invalid password"]
           ELSE IF Expired(shareLink, t)
           THEN [status |-> 410, error |-> "Share link has expired"]
           ELSE [status |-> 0]

\* lines 9-29: the answer that ends the request before the file is read, or
\* status 0 when the link passes
DownloadGate(found, password, t) ==
  IF found = {} THEN [status |-> 404, error |-> "Share link not found"]
  ELSE LET shareLink == CHOOSE l \in found : TRUE
       IN  IF shareLink.password # {}
              /\ (password = "" \/ \A h \in shareLink.password : ~Compare(password, h))
           THEN [status |-> 401, error |-> "Invalid password"]
           ELSE IF ~shareLink.allowDownload
           THEN [status |-> 403, error |-> "Download not allowed"]
           ELSE IF Expired(shareLink, t)
           THEN [status |-> 410, error |-> "Share link has expired"]
           ELSE [status |-> 0]

SharedDownloadStart(p, shareId, password) ==
  /\ Free(p, "share")
  /\ started' = [started EXCEPT !.share = @ + 1]
  /\ LET found == ShareLinksFindById(shareId)
         gate  == DownloadGate(found, password, now)
     IN  req' = [req EXCEPT ![p] =
           [kind |-> "sharedDownload", shareId |-> shareId, password |-> password,
            n |-> started.share + 1,
            fileId |-> IF found = {} THEN 0 ELSE (CHOOSE l \in found : TRUE).fileId,
            file |-> {},
            pc |-> IF gate.status = 0 THEN "file" ELSE "done", resp |-> gate]]
  /\ UNCHANGED <<users, files, objects, scans, shareLinks, now>>

\* the answer of lines 31-34 for the record found (a set): 404, or status 0
SharedFileGate(found) ==
  IF found = {} THEN [status |-> 404, error |-> "File not found"] ELSE [status |-> 0]

\* lines 31-34
SharedDownloadFile(p) ==
  /\ req[p].kind = "sharedDownload" /\ req[p].pc = "file"
  /\ LET gate == SharedFileGate(FilesFindById(req[p].fileId))
     IN  req' = [req EXCEPT ![p].pc = IF gate.status = 0 THEN "increment" ELSE "done",
                            ![p].file = FilesFindById(req[p].fileId),
                            ![p].resp = gate]
  /\ UNCHANGED <<users, files, objects, scans, shareLinks, now, started>>

\* lines 36-50: the access is counted and the file served; when
\* incrementAccess throws, the catch answers 500
SharedDownloadIncrement(p) ==
  /\ req[p].kind = "sharedDownload" /\ req[p].pc = "increment"
  /\ \/ /\ shareLinks' = IncrementAccess(req[p].shareId, now)
        /\ req' = [req EXCEPT ![p].pc = "done", ![p].resp = [status |-> 200]]
     \/ /\ shareLinks' = shareLinks
        /\ req' = [req EXCEPT ![p].pc = "done",
                              ![p].resp = [status |-> 500, error |-> "Internal server error"]]
  /\ UNCHANGED <<users, files, objects, scans, now, started>>

---------------------------------------------------------------------------
(* POST /api/shared/[shareId]/verify *)

\* lines 9-23: the answer of verify for the link found (a set) and the
\* password of the body (a set: empty when the body has none).  bcrypt.compare
\* rejects an argument that is not a string, and the catch answers 500.
VerifyAnswer(found, password) ==
  IF found = {} THEN [status |-> 404, error |-> "Share link not found"]
  ELSE LET shareLink == CHOOSE l \in found : TRUE
       IN  IF shareLink.password = {} THEN [status |-> 200, success |-> TRUE]
           ELSE IF password = {} THEN [status |-> 500, error |-> "Internal server error"]
           ELSE IF \A pw \in password, h \in shareLink.password : ~Compare(pw, h)
           THEN [status |-> 401, error |-> "Invalid password"]
           ELSE [status |-> 200, success |-> TRUE]

\* the handler reads the link once and touches no other shared state
SharedVerify(p, shareId, password) ==
  /\ Free(p, "share")
  /\ started' = [started EXCEPT !.share = @ + 1]
  /\ req' = [req EXCEPT ![p] =
       [kind |-> "verify", pc |-> "done", shareId |-> shareId, password |-> password,
        resp |-> VerifyAnswer(ShareLinksFindById(shareId), password)]]
  /\ UNCHANGED <<users, files, objects, scans, shareLinks, now>>

---------------------------------------------------------------------------
(* GET /api/shared/[shareId]  (unnamed/part_003) *)

\* the link check without the check of expiresAt
ResolveGateIgnoresExpiry(found, t) ==
  IF found = {} THEN [status |-> 404, error |-> "Share link not found"]
  ELSE [status |-> 0]

\* lines 6-15: the answer that ends the request before the file is read, or
\* status 0
ResolveGate(found, t) ==
  IF found = {} THEN [status |-> 404, error |-> "Share link not found"]
  ELSE IF Expired(CHOOSE l \in found : TRUE, t)
  THEN [status |-> 410, error |-> "Share link has expired"]
  ELSE [status |-> 0]

\* lines 6-15: the link is read and its expiry checked
SharedResolveStart(p, shareId) ==
  /\ Free(p, "share")
  /\ started' = [started EXCEPT !.share = @ + 1]
  /\ LET found == ShareLinksFindById(shareId)
         gate  == ResolveGate(found, now)
     IN  req' = [req EXCEPT ![p] =
           [kind |-> "resolve", shareId |-> shareId, link |-> found,
            pc |-> IF gate.status = 0 THEN "file" ELSE "done", resp |-> gate]]
  /\ UNCHANGED <<users, files, objects, scans, shareLinks, now>>

\* lines 22-36: the metadata of the answer; no upload sets
\* metadata.thumbnailPath, so thumbnailUrl is absent
SharedFileMetadata(file, shareLink) ==
  [status |-> 200, id |-> file.id, name |-> file.name, size |-> file.size,
   type |-> file.type, thumbnailUrl |-> {},
   allowDownload |-> shareLink.allowDownload, allowPreview |-> shareLink.allowPreview,
   requiresPassword |-> shareLink.password # {}, expiresAt |-> shareLink.expiresAt,
   virusScanStatus |-> file.virusScanStatus]

\* lines 17-36: the file is read and the answer made
SharedResolveFile(p) ==
  /\ req[p].kind = "resolve" /\ req[p].pc = "file"
  /\ LET shareLink == CHOOSE l \in req[p].link : TRUE
         found     == FilesFindById(shareLink.fileId)
     IN  req' = [req EXCEPT ![p].pc = "done",
                            ![p].resp = IF found = {}
                                        THEN [status |-> 404, error |-> "File not found"]
                                        ELSE SharedFileMetadata(CHOOSE f \in found : TRUE,
                                                                shareLink)]
  /\ UNCHANGED <<users, files, objects, scans, shareLinks, now, started>>

---------------------------------------------------------------------------
(* db.shareLinks.delete: the revocation of a link.  No handler of the upload, *)
(* download and share routes calls it; an active link may be revoked at any  *)
(* time.                                                                     *)

ShareLinksDelete(id) ==
  [i \in DOMAIN shareLinks |->
     IF shareLinks[i].id = id THEN [shareLinks[i] EXCEPT !.isActive = FALSE]
     ELSE shareLinks[i]]

Revoke(id) ==
  /\ ShareLinksFindById(id) # {}
  /\ shareLinks' = ShareLinksDelete(id)
  /\ UNCHANGED <<users, files, objects, scans, now, req, started>>

---------------------------------------------------------------------------
(* Sharing and rescans: a user uploads until one file is recorded; the file *)
(* is rescanned in the background, shared and downloaded while the clock    *)
(* moves on by hours.                                                        *)

ShareBatches == {<<"txt">>}
Passwords == {"", "secret123", "wrong"}
\* the password of a verify body, absent or a string
VerifyPasswords == {{}} \cup {{pw} : pw \in Passwords}
ShareBody(pw, e, ad) ==
  [password |-> pw, expiresIn |-> e, allowDownload |-> ad, allowPreview |-> {}]
ShareBodies ==
  {ShareBody("", NEVER, {}), ShareBody("secret123", <<"1","h">>, {}),
   ShareBody("", NEVER, {FALSE})}

NextShare ==
  \/ Tick(HOUR_MS)
  \/ \E batch \in ShareBatches : Len(files) = 0 /\ UploadStart("p1", Owner, batch)
  \/ UploadFile("p1")
  \/ UploadQuota("p1")
  \/ \E s \in scans, result \in {"clean", "infected"} : ScanRun(s, result)
  \/ \E s \in scans : ScanPurge(s)
  \/ \E u \in Users, id \in 1..(Len(files) + 1) : OwnerDownload("p1", u, id)
  \/ \E u \in Users, id \in 1..(Len(files) + 1), body \in ShareBodies :
       ShareStart("p1", u, id, body)
  \/ ShareInsert("p1")
  \/ ShareStamp("p1")
  \/ \E id \in 1..(Len(shareLinks) + 1), pw \in Passwords : SharedDownloadStart("p1", id, pw)
  \/ SharedDownloadFile("p1")
  \/ SharedDownloadIncrement("p1")

SpecShare == Init /\ [][NextShare]_vars

---------------------------------------------------------------------------
(* Access through share links: a user uploads until one file is recorded    *)
(* and shares it; the links are resolved, verified, downloaded and revoked  *)
(* and the file is deleted while the clock moves on by hours.               *)

NextAccess ==
  \/ Tick(HOUR_MS)
  \/ \E batch \in ShareBatches : Len(files) = 0 /\ UploadStart("p1", Owner, batch)
  \/ UploadFile("p1")
  \/ UploadQuota("p1")
  \/ \E id \in 1..(Len(files) + 1), body \in ShareBodies :
       ShareStart("p1", Owner, id, body)
  \/ ShareInsert("p1")
  \/ ShareStamp("p1")
  \/ \E id \in 1..(Len(shareLinks) + 1), pw \in Passwords : SharedDownloadStart("p1", id, pw)
  \/ SharedDownloadFile("p1")
  \/ SharedDownloadIncrement("p1")
  \/ \E id \in 1..(Len(shareLinks) + 1), pw \in VerifyPasswords : SharedVerify("p1", id, pw)
  \/ \E id \in 1..(Len(shareLinks) + 1) : SharedResolveStart("p1", id)
  \/ SharedResolveFile("p1")
  \/ \E id \in 1..Len(shareLinks) : Revoke(id)
  \/ \E id \in 1..(Len(files) + 1) : DeleteStart("p1", Owner, id)
  \/ DeleteRemove("p1")
  \/ DeleteReadUser("p1")
  \/ DeleteQuota("p1")

SpecAccess == Init /\ [][NextAccess]_vars

---------------------------------------------------------------------------
(* Downloads through share links that overlap: two processes serve the     *)
(* requests, and the steps of two downloads interleave at their awaits.     *)

NextAccessConc ==
  \/ Tick(HOUR_MS)
  \/ \E p \in Procs, batch \in ShareBatches : Len(files) = 0 /\ UploadStart(p, Owner, batch)
  \/ \E p \in Procs : UploadFile(p)
  \/ \E p \in Procs : UploadQuota(p)
  \/ \E p \in Procs, id \in 1..Len(files) : ShareStart(p, Owner, id, ShareBody("", NEVER, {}))
  \/ \E p \in Procs : ShareInsert(p)
  \/ \E p \in Procs : ShareStamp(p)
  \/ \E p \in Procs, id \in 1..Len(shareLinks) : SharedDownloadStart(p, id, "")
  \/ \E p \in Procs : SharedDownloadFile(p)
  \/ \E p \in Procs : SharedDownloadIncrement(p)

SpecAccessConc == Init /\ [][NextAccessConc]_vars

---------------------------------------------------------------------------
(* The requests on a file by its owner and by another user: one of the     *)
(* users uploads until one file is recorded; both users ask for its        *)
(* details, download it, share it and delete it.                           *)

NextOwner ==
  \/ \E u \in Users, batch \in ShareBatches : Len(files) = 0 /\ UploadStart("p1", u, batch)
  \/ UploadFile("p1")
  \/ UploadQuota("p1")
  \/ \E u \in Users, id \in 1..(Len(files) + 1) : OwnerDownload("p1", u, id)
  \/ \E u \in Users, id \in 1..(Len(files) + 1) : FileDetail("p1", u, id)
  \/ \E u \in Users, id \in 1..(Len(files) + 1) :
       ShareStart("p1", u, id, ShareBody("", NEVER, {}))
  \/ ShareInsert("p1")
  \/ ShareStamp("p1")
  \/ \E u \in Users, id \in 1..(Len(files) + 1) : DeleteStart("p1", u, id)
  \/ DeleteRemove("p1")
  \/ DeleteReadUser("p1")
  \/ DeleteQuota("p1")

SpecOwner == Init /\ [][NextOwner]_vars

---------------------------------------------------------------------------
(* The expiry of share links: the links of one file are created with       *)
(* duration tokens of every kind and are resolved and downloaded while the *)
(* clock moves on by days.                                                 *)

ExpiryTokens ==
  { <<"1","h">>, <<"1","2","h">>, <<"1","d">>, <<"2","w">>, <<"1","H">>, NEVER, <<>> }

NextExpiry ==
  \/ Tick(DAY_MS)
  \/ \E batch \in ShareBatches : Len(files) = 0 /\ UploadStart("p1", Owner, batch)
  \/ UploadFile("p1")
  \/ UploadQuota("p1")
  \/ \E id \in 1..Len(files), e \in ExpiryTokens :
       ShareStart("p1", Owner, id, ShareBody("", e, {}))
  \/ ShareInsert("p1")
  \/ ShareStamp("p1")
  \/ \E id \in 1..Len(shareLinks) : SharedResolveStart("p1", id)
  \/ SharedResolveFile("p1")
  \/ \E id \in 1..Len(shareLinks) : SharedDownloadStart("p1", id, "")
  \/ SharedDownloadFile("p1")
  \/ SharedDownloadIncrement("p1")

SpecExpiry == Init /\ [][NextExpiry]_vars

---------------------------------------------------------------------------
(* virusScanner.scanBuffer as a function: a call with a buffer and a file  *)
(* name drawn from the names and bytes below.                              *)

ScanStems == { <<>>, <<"a">>, <<"U+0130">>, <<"a", ".", "b">> }
ScanSuffixes ==
  { <<>>, <<".">>, <<".","j","s">>, <<".","J","s">>, <<".","E","X","E">>, <<".","j">>,
    <<".","j","s","x">>, <<".","t","x","t">>, <<".","P","n","g">>, <<".","b","i","n">> }
ScanNames == {stem \o suffix : stem \in ScanStems, suffix \in ScanSuffixes}

\* the bytes of the two executable headers
ScanBytes == {77, 90, 127, 69, 76, 70}
ScanBuffers == UNION {[1..k -> ScanBytes] : k \in 0..MaxBufferLen}

InitScan ==
  /\ users = [u \in Users |-> [storageUsed |-> 0, storageLimit |-> StorageLimit]]
  /\ files = <<>>
  /\ objects = {}
  /\ scans = {}
  /\ shareLinks = <<>>
  /\ now = 0
  /\ started = [upload |-> 0, delete |-> 0, share |-> 0]
  /\ \E fileName \in ScanNames, buffer \in ScanBuffers :
       req = [p \in Procs |->
                IF p = "p1"
                THEN [kind |-> "scan", pc |-> "call", fileName |-> fileName,
                      buffer |-> buffer]
                ELSE Idle]

ScanBufferCall(p) ==
  /\ req[p].kind = "scan" /\ req[p].pc = "call"
  /\ req' = [req EXCEPT ![p] =
       [kind |-> "scan", pc |-> "done", fileName |-> req[p].fileName,
        buffer |-> req[p].buffer,
        result |-> scanBuffer(req[p].buffer, req[p].fileName)]]
  /\ UNCHANGED <<users, files, objects, scans, shareLinks, now, started>>

NextScan == ScanBufferCall("p1")

SpecScan == InitScan /\ [][NextScan]_vars

---------------------------------------------------------------------------
(* fileValidator.validateBatch as the upload route calls it: a batch of    *)
(* files drawn from the pool below is validated, and rejected or passed on *)
(* to the quota check.                                                     *)

NameOfLength(n) == [i \in 1..n |-> "a"]

ValidatorPool ==
  { [name |-> <<"a",".","t","x","t">>, type |-> <<"text", "plain">>,
     size |-> 100 * 1024 * 1024],
    [name |-> <<"a",".","t","x","t">>, type |-> <<"text", "plain">>,
     size |-> 100 * 1024 * 1024 + 1],
    [name |-> <<"a",".","s","h">>, type |-> <<"application", "x-sh">>, size |-> 1],
    [name |-> NameOfLength(255), type |-> <<"text", "csv">>, size |-> 1],
    [name |-> NameOfLength(256), type |-> <<"text", "csv">>, size |-> 1],
    [name |-> <<"v",".","E","x","e">>, type |-> <<"text", "plain">>, size |-> 1] }

ValidatorBatches == UNION {[1..k -> ValidatorPool] : k \in 0..MaxBatchLen}

InitValidate ==
  /\ users = [u \in Users |-> [storageUsed |-> 0, storageLimit |-> StorageLimit]]
  /\ files = <<>>
  /\ objects = {}
  /\ scans = {}
  /\ shareLinks = <<>>
  /\ now = 0
  /\ started = [upload |-> 0, delete |-> 0, share |-> 0]
  /\ \E fs \in ValidatorBatches :
       req = [p \in Procs |->
                IF p = "p1" THEN [kind |-> "validate", pc |-> "call", fs |-> fs] ELSE Idle]

\* upload/route.ts lines 31-45: the answer for no files, the validation and its
\* answer; status 0 when the batch goes on to the quota check
ValidateCall(p) ==
  /\ req[p].kind = "validate" /\ req[p].pc = "call"
  /\ LET fs         == req[p].fs
         validation == validateBatch(fs)
     IN  req' = [req EXCEPT ![p] =
           [kind |-> "validate", pc |-> "done", fs |-> fs, validation |-> validation,
            resp |-> IF Len(fs) = 0
                     THEN [status |-> 400, error |-> "No files provided"]
                     ELSE IF ~validation.isValid
                     THEN [status |-> 400, error |-> "File validation failed",
                           details |-> validation.errors]
                     ELSE [status |-> 0]]]
  /\ UNCHANGED <<users, files, objects, scans, shareLinks, now, started>>

NextValidate == ValidateCall("p1")

SpecValidate == InitValidate /\ [][NextValidate]_vars

---------------------------------------------------------------------------
(* Uploads of one file name by requests that overlap while the clock moves *)
(* on by milliseconds: Date.now() is read when a key is generated.         *)

NextKeys ==
  \/ Tick(1)
  \/ \E p \in Procs, batch \in BatchesUpTo({"txt"}, 1) : UploadStart(p, Owner, batch)
  \/ \E p \in Procs : UploadFile(p)
  \/ \E p \in Procs : UploadQuota(p)

SpecKeys == Init /\ [][NextKeys]_vars

---------------------------------------------------------------------------
(* Properties of the upload intake pipeline *)

Sizes(entries) == [i \in DOMAIN entries |-> entries[i].size]

IsUpload(r) == r.kind = "upload"
Answered(r, status) == r.pc = "done" /\ r.resp.status = status

\* the batch breaks a rule of section 4.1: a per-file rule or the batch ceiling
FailsValidation(batch) ==
  \/ TotalSize(batch) > 500 * 1024 * 1024
  \/ \E i \in DOMAIN batch :
       LET f == FileOf(batch[i])
       IN  \/ f.size > 100 * 1024 * 1024
           \/ f.type \notin ALLOWED_TYPES
           \/ Len(f.name) > 255
           \/ \E pat \in dangerousPatterns : EndsWithIgnoreCase(f.name, pat)

\* the request of p is an upload whose batch passed validation and the quota check
Accepted(r) ==
  /\ IsUpload(r)
  /\ Len(r.batch) > 0
  /\ ~FailsValidation(r.batch)
  /\ r.user.storageUsed + TotalSize(r.batch) <= r.user.storageLimit

\* p makes the quota update of its batch in this step
QuotaUpdated(p) ==
  /\ IsUpload(req[p]) /\ req[p].pc = "quota"
  /\ req'[p].pc = "done" /\ req'[p].resp.status = 200

\* C1: when an accepted batch makes its quota update, storageUsed becomes the
\* value the batch found when it began plus the sizes of exactly the files it
\* uploaded, each of which has a FileRecord of that size; blocked and failed
\* files add nothing.
C1_QuotaUpdateAddsUploadedSizes ==
  [][\A p \in Procs :
       QuotaUpdated(p) =>
         LET r == req[p]
         IN  /\ Accepted(r)
             /\ users'[r.userId].storageUsed
                  = r.user.storageUsed + SumSeq(Sizes(r.uploadedFiles))
             /\ \A i \in DOMAIN r.uploadedFiles :
                  \E j \in DOMAIN files :
                    /\ files[j].id = r.uploadedFiles[i].id
                    /\ files[j].size = r.uploadedFiles[i].size
                    /\ files[j].userId = r.userId
             /\ Len(r.uploadedFiles) + Len(r.blockedFiles) = Len(r.batch)]_vars

\* a batch on top of earlier usage has answered with one file uploaded and one
\* blocked, and storageUsed grew by the uploaded file alone
C1_Witness ==
  \E p \in Procs :
    /\ IsUpload(req[p]) /\ Answered(req[p], 200)
    /\ req[p].user.storageUsed > 0
    /\ Len(req[p].uploadedFiles) = 1 /\ Len(req[p].blockedFiles) = 1
    /\ users[req[p].userId].storageUsed
         = req[p].user.storageUsed + req[p].uploadedFiles[1].size

\* C2: when two accepted batches of one user overlap, no quota update is
\* lost: once both have answered, storageUsed is the initial value (0) plus
\* the uploaded totals of both.
C2_NoLostUpdate ==
  ( /\ started.upload = 2 /\ started.delete = 0
    /\ \A p \in Procs : IsUpload(req[p]) /\ Accepted(req[p]) /\ Answered(req[p], 200) )
  => users[Owner].storageUsed
       = req["p1"].totalUploadedSize + req["p2"].totalUploadedSize

\* C3: storageUsed of every user is never negative and never above
\* storageLimit, whatever uploads and deletes overlap.
C3_StorageUsedWithinBounds ==
  \A u \in Users :
    /\ users[u].storageUsed >= 0
    /\ users[u].storageUsed <= users[u].storageLimit

\* a delete that overlapped an upload has clamped its decrement at 0 and the
\* upload has then completed its quota update
C3_Witness ==
  \E p, q \in Procs :
    /\ req[p].kind = "delete" /\ Answered(req[p], 200)
    /\ req[p].user.storageUsed < req[p].file.size
    /\ IsUpload(req[q]) /\ Answered(req[q], 200)
    /\ users[Owner].storageUsed > 0

\* C4: a batch that fails validation is answered 400 in the step that takes
\* it, and that step changes no storageUsed, writes no object, creates no
\* FileRecord and schedules no rescan.
C4_InvalidBatchHasNoEffect ==
  [][\A p \in Procs :
       (req'[p] # req[p] /\ IsUpload(req'[p]) /\ FailsValidation(req'[p].batch)) =>
         /\ req'[p].pc = "done" /\ req'[p].resp.status = 400
         /\ users' = users /\ objects' = objects /\ files' = files /\ scans' = scans]_vars

\* a batch of a valid file and a denylisted one was rejected while the stores
\* hold an earlier upload
C4_Witness ==
  \E p \in Procs :
    /\ IsUpload(req[p]) /\ Answered(req[p], 400)
    /\ req[p].batch = <<"txt", "exe">>
    /\ req[p].resp.error = "File validation failed"
    /\ Len(files) > 0 /\ objects # {} /\ users[Owner].storageUsed > 0

\* p takes a new upload in this step
UploadTaken(p) == req'[p] # req[p] /\ IsUpload(req'[p]) /\ started'.upload = started.upload + 1

\* C5: a valid batch is rejected with 413 exactly when storageUsed plus its
\* total size exceeds storageLimit; the rejection reports the attempted and the
\* available bytes and changes no store; a batch that fills the quota exactly
\* is accepted.
C5_QuotaRejectsWholeBatch ==
  [][\A p \in Procs :
       (UploadTaken(p) /\ Len(req'[p].batch) > 0 /\ ~FailsValidation(req'[p].batch)) =>
         LET r     == req'[p]
             user  == users[r.userId]
             total == TotalSize(r.batch)
         IN  IF user.storageUsed + total > user.storageLimit
             THEN /\ r.pc = "done" /\ r.resp.status = 413
                  /\ r.resp.attempted = total
                  /\ r.resp.available = user.storageLimit - user.storageUsed
                  /\ users' = users /\ objects' = objects
                  /\ files' = files /\ scans' = scans
             ELSE r.pc = "files"]_vars

\* a batch was rejected with 413 after an earlier batch had been accepted and
\* had filled the quota exactly
C5_Witness ==
  \E p \in Procs :
    /\ IsUpload(req[p]) /\ Answered(req[p], 413)
    /\ req[p].resp.available = 0 /\ req[p].resp.attempted > 0
    /\ users[Owner].storageUsed = users[Owner].storageLimit
    /\ Len(files) > 0

\* p finishes the file at idx in this step
FileHandled(p) ==
  /\ IsUpload(req[p]) /\ IsUpload(req'[p])
  /\ req[p].pc \in {"files", "store"}
  /\ req'[p].idx = req[p].idx + 1

\* the file p is handling
CurrentFile(p) == FileOf(req[p].batch[req[p].idx])

\* blockedFiles of p grows in this step by one entry for its file, with this reason
BlockedAs(p, reason) ==
  req'[p].blockedFiles
    = Append(req[p].blockedFiles,
             [name |-> CurrentFile(p).name, reason |-> reason, size |-> CurrentFile(p).size])

\* the step left the stores and the running totals of p alone
NothingStored(p) ==
  /\ objects' = objects /\ files' = files /\ scans' = scans /\ users' = users
  /\ req'[p].uploadedFiles = req[p].uploadedFiles
  /\ req'[p].totalUploadedSize = req[p].totalUploadedSize

\* the loop of p goes on with the next file, or to the quota update after the last
GoesOn(p) ==
  req'[p].pc = IF req[p].idx = Len(req[p].batch) THEN "quota" ELSE "files"

\* C6: a file whose inline scan returns infected gets a blocked entry with
\* the reason "Virus/malware detected", its name and its size; the step
\* writes no object, creates no FileRecord, schedules no rescan and charges
\* nothing, and the loop goes on with the next file.  A file the scanner
\* finds infected is never recorded as clean.
C6_InfectedFileIsBlockedWithoutEffect ==
  [][\A p \in Procs :
       FileHandled(p) =>
         LET f        == CurrentFile(p)
             infected == scanBuffer(f.bytes, f.name) = "infected"
             reported == /\ Len(req'[p].blockedFiles) = Len(req[p].blockedFiles) + 1
                         /\ req'[p].blockedFiles[Len(req'[p].blockedFiles)].reason
                              = "Virus/malware detected"
         IN  /\ (infected /\ req'[p].fault.intake \notin {"read", "scan"}) => reported
             /\ reported =>
                  /\ infected
                  /\ BlockedAs(p, "Virus/malware detected")
                  /\ NothingStored(p)
                  /\ GoesOn(p)
             /\ infected =>
                  \A i \in DOMAIN files' :
                    i > Len(files) => files'[i].virusScanStatus # "clean"]_vars

\* a batch has answered with its first file blocked as infected and the file
\* after it uploaded, charged alone
C6_Witness ==
  \E p \in Procs :
    /\ IsUpload(req[p]) /\ Answered(req[p], 200)
    /\ req[p].batch = <<"js", "txt">>
    /\ req[p].blockedFiles
         = << [name |-> FileOf("js").name, reason |-> "Virus/malware detected",
               size |-> FileOf("js").size] >>
    /\ Len(req[p].uploadedFiles) = 1
    /\ req[p].totalUploadedSize = FileOf("txt").size

\* the lists of an accepted batch hold the files handled so far, one entry each
ListsAccountForFiles(r) ==
  /\ Len(r.uploadedFiles) + Len(r.blockedFiles) = r.idx - 1
  /\ r.pc \in {"quota", "done"} => r.idx - 1 = Len(r.batch)
  /\ \A i \in DOMAIN r.blockedFiles :
       r.blockedFiles[i].reason \in {"Upload error", "Virus/malware detected"}
  /\ Answered(r, 200) =>
       r.resp.uploadedCount + r.resp.blockedCount = Len(r.batch)

\* C7 as stated: in an accepted batch a fault while scanning, processing,
\* storing or recording a file gives a blocked entry with the reason "Upload
\* error".
C7_EveryFaultBlocksTheFile ==
  [][\A p \in Procs :
       (FileHandled(p) /\ (req'[p].fault.intake \in {"scan", "process"}
                           \/ req'[p].fault.store # "none"))
         => BlockedAs(p, "Upload error")]_vars

\* C7 as amended: a fault while reading, processing, storing or recording a
\* file gives a blocked entry with the reason "Upload error"; a fault inside
\* the inline scan does not block the file, which is stored and recorded as
\* pending unless a later step of it faults; no fault stops the loop; every
\* file ends in exactly one of the two lists, the counts of the answer add up
\* to the number of files and every blocked entry has a reason.
C7_FaultsAreCapturedPerFile ==
  /\ [](\A p \in Procs : Accepted(req[p]) => ListsAccountForFiles(req[p]))
  /\ [][\A p \in Procs :
          FileHandled(p) =>
            LET flt == req'[p].fault
            IN  /\ GoesOn(p)
                /\ (flt.intake \in {"read", "process"} \/ flt.store # "none")
                     => (BlockedAs(p, "Upload error")
                         /\ req'[p].uploadedFiles = req[p].uploadedFiles
                         /\ req'[p].totalUploadedSize = req[p].totalUploadedSize
                         /\ files' = files /\ scans' = scans)
                /\ (flt.intake = "scan" /\ flt.store = "none")
                     => /\ req'[p].blockedFiles = req[p].blockedFiles
                        /\ Len(req'[p].uploadedFiles) = Len(req[p].uploadedFiles) + 1
                        /\ req'[p].uploadedFiles[Len(req'[p].uploadedFiles)].virusScanStatus
                             = "pending"]_vars

\* a batch of two has answered: the first file failed with "Upload error", the
\* second, whose scan faulted, was uploaded as pending
C7_Witness ==
  \E p \in Procs :
    /\ IsUpload(req[p]) /\ Answered(req[p], 200)
    /\ Len(req[p].batch) = 2
    /\ Len(req[p].blockedFiles) = 1 /\ req[p].blockedFiles[1].reason = "Upload error"
    /\ Len(req[p].uploadedFiles) = 1
    /\ req[p].uploadedFiles[1].virusScanStatus = "pending"
    /\ req[p].fault.intake = "scan"

\* the batch has one file with a denylisted executable extension; the others
\* are valid, clean and fit the quota
OneExecutableAmongClean(r) ==
  /\ Len(r.batch) >= 2
  /\ \E i \in DOMAIN r.batch :
       /\ EndsWithIgnoreCase(FileOf(r.batch[i]).name, <<".","e","x","e">>)
       /\ \A j \in DOMAIN r.batch \ {i} :
            LET f == FileOf(r.batch[j])
            IN  /\ ~FailsValidation(<<r.batch[j]>>)
                /\ scanBuffer(f.bytes, f.name) = "clean"
  /\ r.user.storageUsed + TotalSize(r.batch) <= r.user.storageLimit

\* C8: a batch with one file named like virus.exe among valid clean files
\* is answered with a partial success: the .exe file is listed as blocked with
\* the reason "Virus/malware detected" and the other files are uploaded (or
\* listed with "Upload error" when a fault hit them).
C8_ExecutableGivesPartialSuccess ==
  \A p \in Procs :
    (IsUpload(req[p]) /\ req[p].pc = "done" /\ OneExecutableAmongClean(req[p])) =>
      /\ req[p].resp.status # 400
      /\ req[p].resp.status = 200 =>
           /\ \E i \in DOMAIN req[p].blockedFiles :
                /\ req[p].blockedFiles[i].reason = "Virus/malware detected"
                /\ EndsWithIgnoreCase(req[p].blockedFiles[i].name, <<".","e","x","e">>)
           /\ req[p].resp.uploadedCount + req[p].resp.blockedCount = Len(req[p].batch)

\* C9: every accepted batch is answered with a success that carries the
\* uploaded and blocked counts, whatever faulted in a per-file step or in a
\* later storage or metadata call.
C9_AcceptedBatchAnswersSuccess ==
  \A p \in Procs :
    (Accepted(req[p]) /\ req[p].pc = "done") =>
      /\ req[p].resp.status = 200
      /\ req[p].resp.uploadedCount = Len(req[p].uploadedFiles)
      /\ req[p].resp.blockedCount = Len(req[p].blockedFiles)

---------------------------------------------------------------------------
(* Properties of the download endpoints *)

\* C10: no download is granted for a file whose FileRecord is infected: when
\* the owner download or the share-link download answers with a success, the
\* record its handler read was not infected.
C10_InfectedFileIsNeverGranted ==
  \A p \in Procs :
    (req[p].kind \in {"ownerDownload", "sharedDownload"} /\ Answered(req[p], 200)) =>
      \A f \in req[p].file : f.virusScanStatus # "infected"

---------------------------------------------------------------------------
(* Properties of the rescans *)

\* the rescans scheduled for the record
ScansOf(record) == {s \in scans : s.fileId = record.id}

\* C11: when the background rescan of a file accepted as clean has
\* returned infected and has ended, the object of the file is deleted from
\* the object store and its FileRecord is infected.  No rescan is repeated, so
\* what holds when the rescan has ended is what eventually holds.
C11_InfectedRescanPurgesObject ==
  \A i \in DOMAIN files :
    (files[i].virusScanStatus = "infected" /\ ScansOf(files[i]) = {})
      => files[i].s3Key \notin objects

\* the records the step adds
NewRecords == {files'[i] : i \in (Len(files) + 1)..Len(files')}

\* C12: a FileRecord is created as clean when the inline scan returned
\* clean and as pending when it returned error, never as infected; the step
\* that creates a clean record schedules one rescan for it, with its id and
\* its key, and nothing else schedules a rescan; every scheduled rescan has its
\* record.
C12_StatusAndRescanOfNewRecords ==
  /\ [](/\ \A i \in DOMAIN files :
             /\ files[i].virusScanStatus \in {"clean", "pending"}
             /\ files[i].virusScanStatus = "clean" <=> ScansOf(files[i]) # {}
             /\ Cardinality(ScansOf(files[i])) <= 1
        /\ \A sc \in scans :
             \E i \in DOMAIN files :
               files[i].id = sc.fileId /\ files[i].s3Key = sc.s3Key)
  /\ [][/\ \A p \in Procs :
             FileHandled(p) =>
               \A record \in NewRecords :
                 /\ record.virusScanStatus
                      = IF req'[p].fault.intake = "scan" THEN "pending" ELSE "clean"
                 /\ req'[p].fault.intake # "scan"
                      => scanBuffer(CurrentFile(p).bytes, CurrentFile(p).name) = "clean"
        /\ scans' \ scans
             = {[fileId |-> record.id, s3Key |-> record.s3Key, pc |-> "scheduled"] :
                  record \in {r \in NewRecords : r.virusScanStatus = "clean"}}]_vars

\* a clean record with its rescan and a pending record without one
C12_Witness ==
  \E i, j \in DOMAIN files :
    /\ files[i].virusScanStatus = "clean" /\ Cardinality(ScansOf(files[i])) = 1
    /\ files[j].virusScanStatus = "pending" /\ ScansOf(files[j]) = {}

---------------------------------------------------------------------------
(* Properties of the share links *)

AccessKinds == {"resolve", "verify", "sharedDownload"}

\* p takes a new resolve, verify or download request in this step
AccessTaken(p, kind) ==
  /\ req'[p] # req[p] /\ req'[p].kind = kind
  /\ started'.share = started.share + 1

\* the link is stored (active or not)
Stored_(id) == id \in DOMAIN shareLinks

\* expiresAt of the link has passed at t
PastExpiry(link, t) == link.expiresAt # {} /\ \A e \in link.expiresAt : t > e

\* the link grants nothing any more at t: it is expired or revoked
Closed(link, t) == PastExpiry(link, t) \/ ~link.isActive

\* the password is the one the link was created with, or the link has none
PasswordFits(link, password) ==
  link.password = {} \/ (password # "" /\ <<"bcrypt", password>> \in link.password)

\* C13: a resolve, verify or download request that arrives when the link is
\* expired or revoked is answered with a failure, and a link that is expired
\* or revoked stays so.
C13_ClosedLinkGrantsNothing ==
  /\ [][\A p \in Procs, kind \in AccessKinds :
          (AccessTaken(p, kind) /\ Stored_(req'[p].shareId)
             /\ Closed(shareLinks[req'[p].shareId], now))
            => (req'[p].pc = "done" /\ req'[p].resp.status # 200)]_vars
  /\ [][\A i \in DOMAIN shareLinks :
          Closed(shareLinks[i], now) => Closed(shareLinks'[i], now')]_vars

\* C14: a download passes the link checks exactly when the link is stored
\* and active, the password fits, allowDownload is true and the link is not
\* expired; it is granted only after that and after the file was found; a link
\* that is valid but for allowDownload = false answers 403.
C14_DownloadGrantedOnlyWhenAllChecksPass ==
  /\ [][\A p \in Procs :
          AccessTaken(p, "sharedDownload") =>
            LET id     == req'[p].shareId
                active == Stored_(id) /\ shareLinks[id].isActive
                fits   == active /\ PasswordFits(shareLinks[id], req'[p].password)
                fresh  == active /\ ~PastExpiry(shareLinks[id], now)
            IN  /\ req'[p].pc = "file"
                     <=> (fits /\ fresh /\ shareLinks[id].allowDownload)
                /\ req'[p].pc \in {"file", "done"}
                /\ req'[p].pc = "done" => req'[p].resp.status \in {404, 401, 403, 410}
                /\ (fits /\ fresh /\ ~shareLinks[id].allowDownload)
                     => (req'[p].resp.status = 403
                         /\ req'[p].resp.error = "Download not allowed")]_vars
  /\ [][\A p \in Procs :
          (req[p].kind = "sharedDownload" /\ req[p].pc = "file" /\ req'[p] # req[p]) =>
            LET exists == \E i \in DOMAIN files :
                            files[i].id = req[p].fileId /\ ~files[i].isDeleted
            IN  /\ req'[p].pc = "increment" <=> exists
                /\ ~exists => (req'[p].pc = "done" /\ req'[p].resp.status = 404)]_vars
  /\ [][\A p \in Procs :
          (req'[p] # req[p] /\ req'[p].kind = "sharedDownload" /\ Answered(req'[p], 200))
            => (req[p].kind = "sharedDownload" /\ req[p].pc = "increment")]_vars

\* a download was granted on a link with a password and an expiry
C14_Witness ==
  \E p \in Procs :
    /\ req[p].kind = "sharedDownload" /\ Answered(req[p], 200)
    /\ shareLinks[req[p].shareId].password # {}
    /\ shareLinks[req[p].shareId].expiresAt # {}
    /\ now > 0

\* p ends its download in this step
DownloadEnds(p) ==
  /\ req'[p].kind = "sharedDownload" /\ req'[p].pc = "done"
  /\ req'[p] # req[p]

\* C15: the step that grants a download adds 1 to accessCount of its link
\* and appends one entry to its accessLog, and changes no other link; a
\* download that fails and a verify change no link.
C15_GrantedDownloadCountsOnce ==
  [][\A p \in Procs :
       /\ DownloadEnds(p) =>
            IF req'[p].resp.status = 200
            THEN shareLinks'
                   = [shareLinks EXCEPT
                        ![req'[p].shareId].accessCount = @ + 1,
                        ![req'[p].shareId].accessLog = Append(@, [timestamp |-> now])]
            ELSE shareLinks' = shareLinks
       /\ (req'[p] # req[p] /\ req'[p].kind = "verify") => shareLinks' = shareLinks]_vars

\* the first download of a link with a password was granted after another
\* request on the link: accessCount went from 0 to 1
C15_Witness ==
  \E p \in Procs :
    /\ req[p].kind = "sharedDownload" /\ Answered(req[p], 200)
    /\ req[p].password = "secret123"
    /\ shareLinks[req[p].shareId].password # {}
    /\ shareLinks[req[p].shareId].accessCount = 1
    /\ Len(shareLinks[req[p].shareId].accessLog) = 1
    /\ started.share = 3

\* C16: a verify on an active link answers 200 exactly when the link has no
\* password or the password of the request is the one of the link, answers
\* 401 otherwise, and changes no link.
C16_VerifyAnswersByPassword ==
  [][\A p \in Procs :
       (AccessTaken(p, "verify") /\ Stored_(req'[p].shareId)
          /\ shareLinks[req'[p].shareId].isActive) =>
         LET link == shareLinks[req'[p].shareId]
             fits == link.password = {}
                       \/ \E pw \in req'[p].password : <<"bcrypt", pw>> \in link.password
         IN  /\ req'[p].resp.status = 200 <=> fits
             /\ ~fits => req'[p].resp.status = 401
             /\ shareLinks' = shareLinks]_vars

\* the files a link gives access to: stored and not deleted
FilesOf(link) ==
  {files[i] : i \in {j \in DOMAIN files : files[j].id = link.fileId /\ ~files[j].isDeleted}}

\* C17: a resolve writes nothing; it answers 404 when the link is missing or
\* revoked or its file is missing, 410 when expiresAt has passed, and
\* otherwise the metadata that the stored link and file determine.
C17_ResolveReadsOnly ==
  [][\A p \in Procs :
       /\ (req'[p] # req[p] /\ req'[p].kind = "resolve")
            => UNCHANGED <<users, files, objects, scans, shareLinks>>
       /\ AccessTaken(p, "resolve") =>
            LET id     == req'[p].shareId
                active == Stored_(id) /\ shareLinks[id].isActive
            IN  /\ ~active => (req'[p].pc = "done" /\ req'[p].resp.status = 404)
                /\ (active /\ PastExpiry(shareLinks[id], now))
                     => (req'[p].pc = "done" /\ req'[p].resp.status = 410)
                /\ (active /\ ~PastExpiry(shareLinks[id], now)) => req'[p].pc = "file"
       /\ (req[p].kind = "resolve" /\ req[p].pc = "file" /\ req'[p] # req[p]) =>
            LET link == shareLinks[req[p].shareId]
            IN  /\ req'[p].pc = "done"
                /\ IF FilesOf(link) = {}
                   THEN req'[p].resp.status = 404
                   ELSE \E f \in FilesOf(link) :
                          req'[p].resp
                            = [status |-> 200, id |-> f.id, name |-> f.name,
                               size |-> f.size, type |-> f.type, thumbnailUrl |-> {},
                               allowDownload |-> link.allowDownload,
                               allowPreview |-> link.allowPreview,
                               requiresPassword |-> (link.password # {}),
                               expiresAt |-> link.expiresAt,
                               virusScanStatus |-> f.virusScanStatus]]_vars

\* a resolve answered the metadata of a link with a password after a download
\* of the link was counted
C17_Witness ==
  \E p \in Procs :
    /\ req[p].kind = "resolve" /\ Answered(req[p], 200)
    /\ req[p].resp.requiresPassword
    /\ shareLinks[req[p].shareId].accessCount = 1

\* the delete flow of the file is over
DeleteFlowOver(file) ==
  /\ file.isDeleted
  /\ \A p \in Procs :
       (req[p].kind = "delete" /\ req[p].fileId = file.id) => req[p].pc = "done"

\* C18: once the delete flow of a file is over, every link of the file is
\* stored with isActive = false.
C18_DeletedFileHasNoActiveLink ==
  \A i \in DOMAIN files :
    DeleteFlowOver(files[i]) =>
      \A l \in DOMAIN shareLinks :
        shareLinks[l].fileId = files[i].id => ~shareLinks[l].isActive

\* C19: the entries of a link's accessLog are in the order in which their
\* downloads passed the link checks: when a download appends its entry, no
\* download of the link that passed the checks after it has its entry in the
\* log already.
C19_LogFollowsVerificationOrder ==
  [][\A q \in Procs :
       (DownloadEnds(q) /\ req'[q].resp.status = 200) =>
         \A p \in Procs \ {q} :
           ~(/\ req[p].kind = "sharedDownload" /\ Answered(req[p], 200)
             /\ req[p].shareId = req[q].shareId
             /\ req[p].n > req[q].n)]_vars

\* C20: accessCount of a link equals the length of its accessLog in every
\* state; no step lowers accessCount, removes a link or changes an entry of
\* an accessLog: the old log is a prefix of the new one.
C20_CountEqualsLogLength ==
  /\ [](\A l \in DOMAIN shareLinks :
          shareLinks[l].accessCount = Len(shareLinks[l].accessLog))
  /\ [][\A l \in DOMAIN shareLinks :
          /\ l \in DOMAIN shareLinks'
          /\ shareLinks'[l].accessCount >= shareLinks[l].accessCount
          /\ Len(shareLinks'[l].accessLog) >= Len(shareLinks[l].accessLog)
          /\ SubSeq(shareLinks'[l].accessLog, 1, Len(shareLinks[l].accessLog))
               = shareLinks[l].accessLog]_vars

\* a link was downloaded twice, at two times
C20_Witness ==
  \E l \in DOMAIN shareLinks :
    /\ shareLinks[l].accessCount = 2
    /\ Len(shareLinks[l].accessLog) = 2
    /\ shareLinks[l].accessLog[1].timestamp < shareLinks[l].accessLog[2].timestamp

---------------------------------------------------------------------------
(* Properties of ownership *)

\* the requests that name a file and are reserved to its owner
OwnedKinds == {"share", "ownerDownload", "detail", "delete"}

\* p takes a new request in this step: a request goes to the first vacant process
Taken(p) ==
  /\ started' # started
  /\ Vacant(p) /\ \A q \in Procs : Vacant(q) => ~ProcBefore(q, p)

\* the users who own a record with this id
OwnersOf(id) == {files[i].userId : i \in {j \in DOMAIN files : files[j].id = id}}

\* C21: a share, owner-download, detail or delete request on a stored file
\* by a user who does not own it is answered 403 in the step that takes it and
\* that step changes no FileRecord, no ShareLink and no storageUsed; only the
\* owner's request goes on to a later step or is answered with a success.
C21_OnlyTheOwnerSucceeds ==
  /\ [][\A p \in Procs :
          (Taken(p) /\ req'[p].kind \in OwnedKinds) =>
            LET r       == req'[p]
                another == \E i \in DOMAIN files :
                             /\ files[i].id = r.fileId /\ ~files[i].isDeleted
                             /\ files[i].userId # r.userId
            IN  another => /\ r.pc = "done" /\ r.resp.status = 403
                           /\ files' = files /\ shareLinks' = shareLinks
                           /\ users' = users]_vars
  /\ [](\A p \in Procs :
          (req[p].kind \in OwnedKinds /\ (~Vacant(p) \/ Answered(req[p], 200)))
            => OwnersOf(req[p].fileId) = {req[p].userId})

\* the other user asked to delete a file that is shared and charged to its
\* owner, and was refused
C21_Witness ==
  \E p \in Procs :
    /\ req[p].kind = "delete" /\ Answered(req[p], 403)
    /\ OwnersOf(req[p].fileId) # {} /\ req[p].userId \notin OwnersOf(req[p].fileId)
    /\ \E l \in DOMAIN shareLinks : shareLinks[l].fileId = req[p].fileId
    /\ \E u \in Users : users[u].storageUsed > 0

---------------------------------------------------------------------------
(* Properties of the expiry of share links *)

\* the largest number of hours or days of a token
MaxDuration == 12

\* the decimal numeral of n
RECURSIVE DecimalOf(_)
DecimalOf(n) ==
  IF n < 10 THEN <<DigitChars[n + 1]>>
  ELSE DecimalOf(n \div 10) \o <<DigitChars[(n % 10) + 1]>>

\* units that are neither "h" nor "d"
OtherUnits == { <<"w">>, <<"m">>, <<"H">>, <<"D">>, <<"y">> }

\* p inserts the link of its share request in this step
LinkInserted(p) ==
  /\ req[p].kind = "share" /\ req[p].pc = "insert"
  /\ Len(shareLinks') = Len(shareLinks) + 1

\* C22: the link created for the token "<N>h" has expiresAt = creation
\* time + N hours, for "<N>d" and for "<N><another unit>" creation time +
\* N days; "1h" gives expiresAt between 59 and 61 minutes after the creation;
\* for "never" expiresAt is absent, and no resolve or download of a link
\* without expiresAt is answered 410.
C22_ExpiresAtFollowsToken ==
  /\ [][\A p \in Procs :
          LinkInserted(p) =>
            LET e    == req[p].body.expiresIn
                link == shareLinks'[Len(shareLinks')]
            IN  /\ \A n \in 0..MaxDuration :
                     /\ e = DecimalOf(n) \o <<"h">>
                          => link.expiresAt = {now + n * 60 * 60 * 1000}
                     /\ e = DecimalOf(n) \o <<"d">>
                          => link.expiresAt = {now + n * 24 * 60 * 60 * 1000}
                     /\ \A unit \in OtherUnits :
                          e = DecimalOf(n) \o unit
                            => link.expiresAt = {now + n * 24 * 60 * 60 * 1000}
                /\ e = <<"1","h">> =>
                     \E x \in link.expiresAt :
                       now + 59 * 60 * 1000 <= x /\ x <= now + 61 * 60 * 1000
                /\ e = <<"n","e","v","e","r">> => link.expiresAt = {}
                /\ \/ e \in {<<"n","e","v","e","r">>, <<>>}
                   \/ \E n \in 0..MaxDuration, unit \in OtherUnits \cup {<<"h">>, <<"d">>} :
                        e = DecimalOf(n) \o unit]_vars
  /\ [](\A p \in Procs :
          (req[p].kind \in {"resolve", "sharedDownload"} /\ Answered(req[p], 410))
            => shareLinks[req[p].shareId].expiresAt # {})

\* a link created with "2w" one day after the start expires two days later,
\* and a link without expiresAt was downloaded
C22_Witness ==
  /\ \E p \in Procs :
       /\ req[p].kind = "share" /\ Answered(req[p], 200)
       /\ req[p].body.expiresIn = <<"2","w">>
       /\ req[p].resp.expiresAt = {3 * 24 * 60 * 60 * 1000}
  /\ \E l \in DOMAIN shareLinks :
       shareLinks[l].expiresAt = {} /\ shareLinks[l].accessCount = 1

---------------------------------------------------------------------------
(* Properties of the delete flow *)

\* p makes the step of its delete request that starts at pc
DeleteStep(p, pc) == req[p].kind = "delete" /\ req[p].pc = pc /\ req'[p].pc # pc

\* the step soft-deletes the record of p's request, keeps every record stored
\* and goes on to the quota, whatever became of the objects
SoftDeleted(p) ==
  /\ Len(files') = Len(files)
  /\ \A i \in DOMAIN files :
       files'[i] = IF files[i].id = req[p].fileId
                   THEN [files[i] EXCEPT !.isDeleted = TRUE, !.deletedAt = {now}]
                   ELSE files[i]
  /\ objects' \subseteq objects
  /\ req'[p].pc = "readUser"

\* the size of the record p deletes
DeletedSize(p) ==
  LET i == CHOOSE j \in DOMAIN files : files[j].id = req[p].fileId IN files[i].size

---------------------------------------------------------------------------
(* Properties of the content scanner *)

\* c and d are the same letter in either case, or the same character
SameIgnoringCase(c, d) ==
  c = d \/ \E k \in DOMAIN UpperChars :
             {c, d} \subseteq {UpperChars[k], LowerChars[k]}

\* the extension of the name: from its last dot to its end, empty without a dot
ExtensionOf(name) ==
  LET dots == {i \in DOMAIN name : name[i] = "."}
  IN  IF dots = {} THEN <<>>
      ELSE SubSeq(name, CHOOSE i \in dots : \A j \in dots : j <= i, Len(name))

DangerousSet ==
  { <<".","e","x","e">>, <<".","b","a","t">>, <<".","c","m","d">>, <<".","s","c","r">>,
    <<".","p","i","f">>, <<".","c","o","m">>, <<".","v","b","s">>, <<".","j","s">>,
    <<".","j","a","r">>, <<".","m","s","i">>, <<".","d","e","b">>, <<".","r","p","m">> }

HasDangerousExtension(name) ==
  \E d \in DangerousSet :
    /\ Len(ExtensionOf(name)) = Len(d)
    /\ \A i \in DOMAIN d : SameIgnoringCase(ExtensionOf(name)[i], d[i])

\* the bytes hold the marker at some offset
HasMarker(bytes, marker) ==
  \E k \in 1..(Len(bytes) - Len(marker) + 1) :
    SubSeq(bytes, k, k + Len(marker) - 1) = marker

\* C24: scanBuffer returns infected for every name whose extension is, in
\* any case, in the dangerous set, whatever the bytes; for every other name it
\* returns infected exactly when the bytes hold 4D 5A or 7F 45 4C 46 at some
\* offset, and clean otherwise.
C24_ScanFollowsExtensionAndMarkers ==
  \A p \in Procs :
    (req[p].kind = "scan" /\ req[p].pc = "done") =>
      req[p].result
        = IF HasDangerousExtension(req[p].fileName) THEN "infected"
          ELSE IF HasMarker(req[p].buffer, <<77, 90>>)
                  \/ HasMarker(req[p].buffer, <<127, 69, 76, 70>>)
          THEN "infected"
          ELSE "clean"

---------------------------------------------------------------------------
(* Properties of the validator *)

\* the file breaks one of the four per-file rules
BreaksFileRule(f) ==
  \/ f.size > 100 * 1024 * 1024
  \/ f.type \notin ALLOWED_TYPES
  \/ Len(f.name) > 255
  \/ \E d \in { <<".","e","x","e">>, <<".","b","a","t">>, <<".","c","m","d">>,
                <<".","s","c","r">> } :
       /\ Len(f.name) >= 4
       /\ \A i \in 1..4 : SameIgnoringCase(f.name[Len(f.name) - 4 + i], d[i])

\* the batch is over the ceiling of 500 MiB
OverCeiling(fs) == SumSeq([i \in DOMAIN fs |-> fs[i].size]) > 500 * 1024 * 1024

\* the entries of the errors that are about a file, and the one about the batch
FileEntries(errors) == {k \in DOMAIN errors : "index" \in DOMAIN errors[k]}
BatchEntries(errors) == {k \in DOMAIN errors : "batch" \in DOMAIN errors[k]}

\* C25: validateBatch reports the batch valid exactly when its total size
\* is at most 500 MiB and no file breaks a per-file rule; the errors hold the
\* batch entry exactly when the total is over 500 MiB, whatever the files are,
\* and one entry for each failing file and for no other; a batch that fails is
\* answered 400 and nothing of it is stored.
C25_BatchValidIffAllRulesPass ==
  \A p \in Procs :
    (req[p].kind = "validate" /\ req[p].pc = "done") =>
      LET fs     == req[p].fs
          errors == req[p].validation.errors
      IN  /\ req[p].validation.isValid
               <=> (~OverCeiling(fs) /\ \A i \in DOMAIN fs : ~BreaksFileRule(fs[i]))
          /\ Cardinality(BatchEntries(errors)) = IF OverCeiling(fs) THEN 1 ELSE 0
          /\ \A i \in DOMAIN fs :
               Cardinality({k \in FileEntries(errors) : errors[k].index = i})
                 = IF BreaksFileRule(fs[i]) THEN 1 ELSE 0
          /\ Len(errors) = Cardinality(BatchEntries(errors))
                           + Cardinality({i \in DOMAIN fs : BreaksFileRule(fs[i])})
          /\ ~req[p].validation.isValid =>
               /\ req[p].resp.status = 400
               /\ files = <<>> /\ objects = {} /\ scans = {}
               /\ \A u \in Users : users[u].storageUsed = 0

\* six files of 100 MiB, each valid, were rejected for the size of the batch alone
C25_Witness ==
  \E p \in Procs :
    /\ req[p].kind = "validate" /\ req[p].pc = "done"
    /\ Len(req[p].fs) = 6
    /\ \A i \in DOMAIN req[p].fs : req[p].fs[i].size = 100 * 1024 * 1024
    /\ req[p].resp.status = 400
    /\ Len(req[p].validation.errors) = 1
    /\ files = <<>> /\ objects = {}

---------------------------------------------------------------------------
(* Properties of the storage keys *)

\* thumbnails/<userId>/thumb-<timestamp>-<sanitizedName> for the key
\* files/<userId>/<timestamp>-<sanitizedName>
DerivedThumbnailKey(key) ==
  [dir |-> "thumbnails", userSeg |-> <<<<>>, key.userSeg[2]>>,
   fileSeg |-> <<<<"thumb-">>, key.fileSeg[2], key.fileSeg[3]>>]

\* C26: for every record with a thumbnail, thumbnailS3Key is the thumbnail
\* key derived from the storage key of the original, and until the file is
\* deleted the thumbnail object is stored under that key.
C26_ThumbnailKeyIsDerivedFromOriginal ==
  \A i \in DOMAIN files :
    files[i].thumbnailS3Key # {} =>
      /\ files[i].thumbnailS3Key = {DerivedThumbnailKey(files[i].s3Key)}
      /\ ~files[i].isDeleted => DerivedThumbnailKey(files[i].s3Key) \in objects

---------------------------------------------------------------------------
(* Properties of the quota and of the object store *)

\* the sizes of the records of the user that are not soft-deleted, added up
LiveSize(u) ==
  SumSeq(Sizes(SelectSeq(files, LAMBDA f : f.userId = u /\ ~f.isDeleted)))

\* no upload or delete of the user is in flight
Quiet(u) ==
  \A p \in Procs :
    (req[p].kind \in {"upload", "delete"} /\ req[p].userId = u) => req[p].pc = "done"

\* C28: whenever no upload or delete of a user is in flight, storageUsed of
\* the user is the sum of the sizes of the user's records that are not
\* soft-deleted.
C28_StorageUsedIsSumOfLiveRecords ==
  \A u \in Users : Quiet(u) => users[u].storageUsed = LiveSize(u)

\* C29: the step that adds a file to blockedFiles writes no object: a
\* blocked file leaves nothing in the object store.
C29_BlockedFileLeavesNoObject ==
  [][\A p \in Procs :
       (FileHandled(p) /\ Len(req'[p].blockedFiles) = Len(req[p].blockedFiles) + 1)
         => objects' = objects]_vars

\* C30: the quota update of a batch that uploaded no file leaves
\* storageUsed of the user as it is, whatever was committed since the batch
\* read the user.
C30_EmptyBatchKeepsStorageUsed ==
  [][\A p \in Procs :
       (QuotaUpdated(p) /\ req[p].uploadedFiles = <<>>)
         => users'[req[p].userId].storageUsed = users[req[p].userId].storageUsed]_vars

===========================================================================
